---- MODULE Spec2Model ----
(***************************************************************************)
(* A model of packages/tao/src/commands/run.ts: parseRunOpts,              *)
(* validateTargetAndConfiguration, iteratorToProcessStatusCode and run.    *)
(*                                                                         *)
(* JavaScript strings are sequences of one-character strings, so that      *)
(* String.prototype.split is computed and not assumed.  `undefined` and    *)
(* `null` are the one-element sequences Undefined and Null, which no       *)
(* string of the model equals.  A JavaScript object whose key order is     *)
(* observable (Object.keys) is a sequence of [key, value] entries in       *)
(* insertion order; the option bags are functions from keys to values.     *)
(***************************************************************************)
EXTENDS Integers, Sequences, FiniteSets, TLC

VARIABLES pc, argv, defaultProjectName, workspace, opts, error, exitCode,
          helpCalls, implCalls, bridgeCalls, isNx, exec, nexts, consumed

vars == <<pc, argv, defaultProjectName, workspace, opts, error, exitCode,
          helpCalls, implCalls, bridgeCalls, isNx, exec, nexts, consumed>>

(***************************************************************************)
(* Bounds                                                                  *)
(***************************************************************************)
\* longest positional token, in characters ("a:b:a" needs 5)
MaxTokenLen == 5
\* most targets a project of the validation workspaces declares
MaxTargets == 2
\* most outcomes an executor's sequence produces
MaxOutcomes == 3

(***************************************************************************)
(* JavaScript values                                                       *)
(***************************************************************************)
Undefined == <<"undefined">>
Null == <<"null">>
Letters == {"a", "b"}
Colon == ":"
EmptyString == <<>>
EmptyObject == [k \in {} |-> TRUE]

\* the strings of at most n characters over the letters and ':'
Strings(n) == UNION {[1..k -> Letters \cup {Colon}] : k \in 0..n}

\* truthiness of a value that is a string, undefined or null
Truthy(v) == v # Undefined /\ v # Null /\ v # EmptyString

\* o[k] of an option bag: undefined when the key is absent
Get(o, k) == IF k \in DOMAIN o THEN o[k] ELSE Undefined

A == <<"a">>
B == <<"b">>
AB == <<"a", "b">>
Production == <<"p", "r", "o", "d", "u", "c", "t", "i", "o", "n">>

(***************************************************************************)
(* Errors.  Every error of run.ts is `new Error(message)`; the record      *)
(* keeps what the message is built from.                                   *)
(***************************************************************************)
Err(type, project, target, configuration, valid) ==
    [type |-> type, project |-> project, target |-> target,
     configuration |-> configuration, valid |-> valid]

NoError == Err("none", Undefined, Undefined, Undefined, <<>>)

\* "Specify the project name and the target (e.g., nx run proj:build)"
throwInvalidInvocation ==
    Err("InvalidInvocation", Undefined, Undefined, Undefined, <<>>)

\* calling .split on a number, or reading .success of undefined
TypeError == Err("TypeError", Undefined, Undefined, Undefined, <<>>)

Thrown(e) == [status |-> "thrown", error |-> e]

(***************************************************************************)
(* minimist(args, {boolean: [help, prod], string: [configuration,          *)
(* project], alias: {c: configuration}}): what it returns.                 *)
(*   _              the positional tokens; a token that reads as a number  *)
(*                  is stored as a Number, any other as a string           *)
(*   help, prod     always present, false unless given                     *)
(*   configuration  present only when given, and then c holds the same     *)
(*   project        present only when given                                *)
(*   any other key  as given                                               *)
(***************************************************************************)
StringToken(s) == [isNumber |-> FALSE, str |-> s, num |-> 0]
NumberToken(n) == [isNumber |-> TRUE, str |-> EmptyString, num |-> n]

minimist(positional, help, prod, configuration, project, extra) ==
    ("_" :> positional) @@ ("help" :> help) @@ ("prod" :> prod)
    @@ (IF configuration = Undefined THEN EmptyObject
        ELSE ("configuration" :> configuration) @@ ("c" :> configuration))
    @@ (IF project = Undefined THEN EmptyObject ELSE ("project" :> project))
    @@ extra

\* the pass-through options of the model
PassThrough ==
    { EmptyObject,
      ("watch" :> TRUE),
      ("with-deps" :> TRUE) @@ ("watch" :> FALSE) @@ ("skip-nx-cache" :> A) }

FlagValues == {Undefined, EmptyString, B}

Positionals(tokens) ==
    {<<>>} \cup {<<NumberToken(n)>> : n \in {0, 5}}
           \cup {<<StringToken(s)>> : s \in tokens}

(***************************************************************************)
(* convertToCamelCase (../shared/params): every key from hyphenated to     *)
(* camel-case form, the values kept.                                       *)
(***************************************************************************)
camelCase(k) ==
    CASE k = "with-deps" -> "withDeps"
      [] k = "skip-nx-cache" -> "skipNxCache"
      [] OTHER -> k

convertToCamelCase(parsed) ==
    [k \in {camelCase(j) : j \in DOMAIN parsed} |->
        parsed[CHOOSE j \in DOMAIN parsed : camelCase(j) = k]]

(***************************************************************************)
(* String.prototype.split(':') and the destructuring of its result         *)
(***************************************************************************)
RECURSIVE splitFrom(_, _, _)
splitFrom(s, current, parts) ==
    IF s = <<>> THEN Append(parts, current)
    ELSE IF Head(s) = Colon
         THEN splitFrom(Tail(s), <<>>, Append(parts, current))
         ELSE splitFrom(Tail(s), Append(current, Head(s)), parts)

split(s) == splitFrom(s, <<>>, <<>>)

\* element i of a destructured array: undefined past its end
Element(parts, i) == IF i <= Len(parts) THEN parts[i] ELSE Undefined

(***************************************************************************)
(* parseRunOpts                                                            *)
(***************************************************************************)
RecognizedKeys == {"help", "_", "c", "configuration", "prod", "project"}

\* !runOptions._ || !runOptions._[0]
NoInvocationToken(runOptions) ==
    \/ Len(runOptions["_"]) = 0
    \/ LET t == runOptions["_"][1]
       IN IF t.isNumber THEN t.num = 0 ELSE t.str = EmptyString

\* lines 58-65 and 72-74: the default project, then the project flag
resolveProject(segment, runOptions, default) ==
    LET withDefault == IF ~Truthy(segment) /\ Truthy(default)
                       THEN default ELSE segment
    IN IF Truthy(Get(runOptions, "project"))
       THEN runOptions["project"] ELSE withDefault

\* lines 66-71 with the two tests in the other order
resolveConfigurationProdFirst(segment, runOptions) ==
    LET withProd == IF runOptions["prod"] THEN Production ELSE segment
    IN IF Truthy(Get(runOptions, "configuration"))
       THEN runOptions["configuration"] ELSE withProd

\* lines 66-71: the configuration flag, then prod
resolveConfiguration(segment, runOptions) ==
    LET withFlag == IF Truthy(Get(runOptions, "configuration"))
                    THEN runOptions["configuration"] ELSE segment
    IN IF runOptions["prod"] THEN Production ELSE withFlag

\* lines 79-84 without `delete runOptions['c']`
deleteKeysButAlias(runOptions) ==
    [k \in DOMAIN runOptions \ (RecognizedKeys \ {"c"}) |-> runOptions[k]]

\* lines 79-84: the six deletes
deleteKeys(runOptions) ==
    [k \in DOMAIN runOptions \ RecognizedKeys |-> runOptions[k]]

\* lines 75-77: !project || !target
unresolved(project, target) == ~Truthy(project) \/ ~Truthy(target)

parseRunOpts(args, default) ==
    LET runOptions == convertToCamelCase(args)
        help == runOptions["help"]
    IN IF NoInvocationToken(runOptions) THEN Thrown(throwInvalidInvocation)
       ELSE IF runOptions["_"][1].isNumber THEN Thrown(TypeError)
       ELSE
         LET parts == split(runOptions["_"][1].str)
             project == resolveProject(Element(parts, 1), runOptions, default)
             target == Element(parts, 2)
             configuration ==
                 resolveConfiguration(Element(parts, 3), runOptions)
         IN IF unresolved(project, target)
            THEN Thrown(throwInvalidInvocation)
            ELSE [status |-> "returned",
                  res |-> [project |-> project, target |-> target,
                           configuration |-> configuration, help |-> help,
                           runOptions |-> deleteKeys(runOptions)]]

NoOpts == [project |-> Undefined, target |-> Undefined,
           configuration |-> Undefined, help |-> FALSE,
           runOptions |-> EmptyObject]

(***************************************************************************)
(* Objects whose key order is observable: sequences of [key, value]        *)
(* entries with distinct keys, in insertion order.                         *)
(***************************************************************************)
Entry(k, v) == [key |-> k, value |-> v]

\* Object.keys(o)
Keys(o) == [i \in 1..Len(o) |-> o[i].key]

\* whether o[k] is an object (and so truthy)
Has(o, k) == \E i \in 1..Len(o) : o[i].key = k

\* o[k], for a key the object has
Lookup(o, k) == o[CHOOSE i \in 1..Len(o) : o[i].key = k].value

DistinctKeys(o) == \A i, j \in 1..Len(o) : o[i].key = o[j].key => i = j

(***************************************************************************)
(* validateTargetAndConfiguration                                          *)
(***************************************************************************)
\* line 102 with the last key lost
availableTargetsButLast(project) ==
    SubSeq(Keys(project.targets), 1, Len(project.targets) - 1)

\* line 102: Object.keys(project.targets)
availableTargets(project) == Keys(project.targets)

\* lines 113-130 with the test of target.configurations dropped
checkConfigurationAnyMap(target, o) ==
    IF Truthy(o.configuration)
    THEN IF ~Has(target.configurations.entries, o.configuration)
            /\ target.configurations.declared
         THEN Thrown(Err("ConfigurationNotFound", o.project, o.target,
                         o.configuration,
                         Keys(target.configurations.entries)))
         ELSE [status |-> "returned"]
    ELSE [status |-> "returned"]

\* lines 113-130: the configuration of a target that exists
checkConfiguration(target, o) ==
    IF Truthy(o.configuration)
    THEN IF target.configurations.declared
         THEN IF ~Has(target.configurations.entries, o.configuration)
              THEN Thrown(Err("ConfigurationNotFound", o.project, o.target,
                              o.configuration,
                              Keys(target.configurations.entries)))
              ELSE [status |-> "returned"]
         ELSE Thrown(Err("NoConfigurations", o.project, o.target,
                         o.configuration, <<>>))
    ELSE [status |-> "returned"]

validateTargetAndConfiguration(ws, o) ==
    IF ~Has(ws.projects, o.project)
    THEN Thrown(Err("ProjectNotFound", o.project, Undefined, Undefined, <<>>))
    ELSE LET project == Lookup(ws.projects, o.project)
         IN IF ~Has(project.targets, o.target)
            THEN Thrown(Err("TargetNotFound", o.project, o.target, Undefined,
                            availableTargets(project)))
            ELSE checkConfiguration(Lookup(project.targets, o.target), o)

(***************************************************************************)
(* Outcomes                                                                *)
(***************************************************************************)
\* r.success ? 0 : 1
statusCode(success) == IF success THEN 0 ELSE 1

\* lines 146-153 answering 0 when nothing was produced
iteratorToProcessStatusCodeLenient(values) ==
    IF Len(values) = 0 THEN [status |-> "returned", code |-> 0]
    ELSE [status |-> "returned", code |-> statusCode(values[Len(values)])]

\* lines 146-153 failing as soon as one outcome failed
iteratorToProcessStatusCodeAll(values) ==
    IF Len(values) = 0 THEN Thrown(TypeError)
    ELSE [status |-> "returned",
          code |-> statusCode(\A i \in 1..Len(values) : values[i])]

\* lines 146-153, once the sequence is exhausted: `values` are the success
\* flags of the outcomes the loop assigned to r, in order; r is the last of
\* them, and undefined when there was none
iteratorToProcessStatusCode(values) ==
    IF Len(values) = 0 THEN Thrown(TypeError)
    ELSE [status |-> "returned", code |-> statusCode(values[Len(values)])]

BoolSeqs(n) == UNION {[1..k -> BOOLEAN] : k \in 0..n}

\* what an executor, once invoked, goes on to do: a deferred outcome that
\* resolves or rejects, or a sequence that produces its outcomes and then
\* ends or raises
NoExec == [shape |-> "none", outcomes |-> <<>>, ending |-> "none"]

Promises ==
    {[shape |-> "promise", outcomes |-> <<b>>, ending |-> "done"] :
        b \in BOOLEAN}
    \cup {[shape |-> "promise", outcomes |-> <<>>, ending |-> "throw"]}

Iterators ==
    {[shape |-> "iterator", outcomes |-> s, ending |-> e] :
        s \in BoolSeqs(MaxOutcomes), e \in {"done", "throw"}}

ExecutorError ==
    Err("ExecutorError", Undefined, Undefined, Undefined, <<>>)

(***************************************************************************)
(* Workspaces                                                              *)
(***************************************************************************)
Target(executor, configurations) ==
    [executor |-> executor, configurations |-> configurations]

\* target.configurations when the target declares none: undefined
NoConfigurations == [declared |-> FALSE, entries |-> <<>>]

\* target.configurations when the target declares these names, in this order
Configurations(names) ==
    [declared |-> TRUE,
     entries |-> [i \in 1..Len(names) |-> Entry(names[i], EmptyObject)]]

\* a target's configurations: no map at all, an empty map, or some names
ConfigurationMaps ==
    {NoConfigurations}
    \cup {Configurations(n) : n \in {<<>>, <<A>>, <<A, B>>, <<B, A>>}}

TargetNames == {A, B, AB}

\* the target maps of at most n targets, in every declaration order
TargetMaps(n) ==
    {t \in UNION {[1..k -> {Entry(name, Target(<<"a", ":", "a">>, c)) :
                               name \in TargetNames,
                               c \in ConfigurationMaps}] : k \in 0..n} :
        DistinctKeys(t)}

Workspace(targets) == [projects |-> <<Entry(A, [targets |-> targets])>>]

\* the workspace of the runs: project a with a target a that declares no
\* configurations and a target b that declares a and production
RunWorkspace ==
    Workspace(<<Entry(A, Target(<<"a", ":", "a">>, NoConfigurations)),
                Entry(B, Target(<<"b", ":", "a">>,
                                Configurations(<<A, Production>>)))>>)

(***************************************************************************)
(* run                                                                     *)
(***************************************************************************)
Quiet ==
    /\ error = NoError
    /\ exitCode = <<>>
    /\ helpCalls = 0
    /\ implCalls = 0
    /\ bridgeCalls = 0
    /\ isNx = FALSE
    /\ exec = NoExec
    /\ nexts = 0
    /\ consumed = <<>>

\* a run of the command line, before parseRunOpts
Init ==
    /\ pc = "start"
    /\ \E s \in Positionals(Strings(MaxTokenLen)), h, p \in BOOLEAN,
          c \in {Undefined, B} :
          argv = minimist(s, h, p, c, Undefined, EmptyObject)
    /\ defaultProjectName \in {Null, A}
    /\ workspace = RunWorkspace
    /\ opts = NoOpts
    /\ Quiet

\* parseRunOpts on every command line and default project of the model
InitParse ==
    /\ pc = "start"
    /\ \E s \in Positionals(Strings(MaxTokenLen)), h, p \in BOOLEAN,
          c, j \in FlagValues, x \in PassThrough :
          argv = minimist(s, h, p, c, j, x)
    /\ defaultProjectName \in {Null, A}
    /\ workspace = RunWorkspace
    /\ opts = NoOpts
    /\ Quiet

\* validateTargetAndConfiguration on every request and workspace of the model
InitValidate ==
    /\ pc = "parsed"
    /\ argv = EmptyObject
    /\ defaultProjectName = Null
    /\ workspace \in {Workspace(t) : t \in TargetMaps(MaxTargets)}
    /\ \E p \in {A, B}, t \in TargetNames,
          c \in {Undefined, EmptyString, A, B, AB}, h \in BOOLEAN :
          opts = [project |-> p, target |-> t, configuration |-> c,
                  help |-> h, runOptions |-> EmptyObject]
    /\ Quiet

\* the error reaches handleErrors
Fail(e) ==
    /\ pc' = "failed"
    /\ error' = e

\* line 166
Parse ==
    /\ pc = "start"
    /\ LET r == parseRunOpts(argv, defaultProjectName)
       IN IF r.status = "thrown"
          THEN Fail(r.error) /\ UNCHANGED opts
          ELSE pc' = "parsed" /\ opts' = r.res /\ UNCHANGED error
    /\ UNCHANGED <<argv, defaultProjectName, workspace, exitCode, helpCalls,
                   implCalls, bridgeCalls, isNx, exec, nexts, consumed>>

\* line 167 with requests for help let through
ValidateUnlessHelp ==
    /\ pc = "parsed"
    /\ LET r == validateTargetAndConfiguration(workspace, opts)
       IN IF r.status = "thrown" /\ ~opts.help
          THEN Fail(r.error)
          ELSE pc' = "validated" /\ UNCHANGED error
    /\ UNCHANGED <<argv, defaultProjectName, workspace, opts, exitCode,
                   helpCalls, implCalls, bridgeCalls, isNx, exec, nexts,
                   consumed>>

\* line 167
Validate ==
    /\ pc = "parsed"
    /\ LET r == validateTargetAndConfiguration(workspace, opts)
       IN IF r.status = "thrown"
          THEN Fail(r.error)
          ELSE pc' = "validated" /\ UNCHANGED error
    /\ UNCHANGED <<argv, defaultProjectName, workspace, opts, exitCode,
                   helpCalls, implCalls, bridgeCalls, isNx, exec, nexts,
                   consumed>>

\* lines 169-179: the target, its executor and the combined options.  Reading
\* .targets of a project, or .executor of a target, that does not exist is a
\* TypeError; whether the executor is native is the workspace reader's answer
Prepare ==
    /\ pc = "validated"
    /\ IF /\ Has(workspace.projects, opts.project)
          /\ Has(Lookup(workspace.projects, opts.project).targets,
                 opts.target)
       THEN pc' = "ready" /\ isNx' \in BOOLEAN /\ UNCHANGED error
       ELSE Fail(TypeError) /\ UNCHANGED isNx
    /\ UNCHANGED <<argv, defaultProjectName, workspace, opts, exitCode,
                   helpCalls, implCalls, bridgeCalls, exec, nexts, consumed>>

\* lines 180-183 with the executor run as well
HelpAndRun ==
    /\ pc = "ready"
    /\ opts.help
    /\ helpCalls' = helpCalls + 1
    /\ implCalls' = implCalls + 1
    /\ exitCode' = <<0>>
    /\ pc' = "done"
    /\ UNCHANGED <<argv, defaultProjectName, workspace, opts, error,
                   bridgeCalls, isNx, exec, nexts, consumed>>

\* lines 180-183
Help ==
    /\ pc = "ready"
    /\ opts.help
    /\ helpCalls' = helpCalls + 1
    /\ exitCode' = <<0>>
    /\ pc' = "done"
    /\ UNCHANGED <<argv, defaultProjectName, workspace, opts, error,
                   implCalls, bridgeCalls, isNx, exec, nexts, consumed>>

\* typeof r.then === 'function'
isPromise(r) == r.shape = "promise"

\* lines 185-196: the implementation is called; it raises, or returns a
\* deferred outcome (awaited next) or a sequence (iterated next)
InvokeNative ==
    /\ pc = "ready"
    /\ ~opts.help
    /\ isNx
    /\ implCalls' = implCalls + 1
    /\ \/ Fail(ExecutorError) /\ UNCHANGED exec
       \/ \E r \in Promises \cup Iterators :
             /\ exec' = r
             /\ pc' = IF isPromise(r) THEN "awaiting" ELSE "iterating"
             /\ UNCHANGED error
    /\ UNCHANGED <<argv, defaultProjectName, workspace, opts, exitCode,
                   helpCalls, bridgeCalls, isNx, nexts, consumed>>

\* lines 198-209: scheduleTarget is called; it raises, or returns the source
\* that eachValueFrom turns into a sequence
InvokeBridge ==
    /\ pc = "ready"
    /\ ~opts.help
    /\ ~isNx
    /\ bridgeCalls' = bridgeCalls + 1
    /\ \/ Fail(ExecutorError) /\ UNCHANGED exec
       \/ \E r \in Iterators :
             /\ exec' = r
             /\ pc' = "iterating"
             /\ UNCHANGED error
    /\ UNCHANGED <<argv, defaultProjectName, workspace, opts, exitCode,
                   helpCalls, implCalls, isNx, nexts, consumed>>

\* what follows an outcome that settles the run
Settle(r) ==
    IF r.status = "thrown"
    THEN Fail(r.error) /\ UNCHANGED exitCode
    ELSE pc' = "done" /\ exitCode' = <<r.code>> /\ UNCHANGED error

\* line 193: (await r).success ? 0 : 1
Await ==
    /\ pc = "awaiting"
    /\ nexts' = nexts + 1
    /\ IF exec.ending = "throw"
       THEN Fail(ExecutorError) /\ UNCHANGED <<exitCode, consumed>>
       ELSE /\ consumed' = Append(consumed, exec.outcomes[1])
            /\ Settle([status |-> "returned",
                       code |-> statusCode(exec.outcomes[1])])
    /\ UNCHANGED <<argv, defaultProjectName, workspace, opts, helpCalls,
                   implCalls, bridgeCalls, isNx, exec>>

\* lines 150-152 with an error of the sequence taken for its end
StepSwallowing ==
    /\ pc = "iterating"
    /\ nexts' = nexts + 1
    /\ IF nexts < Len(exec.outcomes)
       THEN /\ consumed' = Append(consumed, exec.outcomes[nexts + 1])
            /\ UNCHANGED <<pc, error, exitCode>>
       ELSE /\ Settle(iteratorToProcessStatusCode(consumed))
            /\ UNCHANGED consumed
    /\ UNCHANGED <<argv, defaultProjectName, workspace, opts, helpCalls,
                   implCalls, bridgeCalls, isNx, exec>>

\* lines 150-152: one step of `for await (r of i)`: the next outcome is
\* requested; it arrives and is assigned to r, or the sequence raises, or it
\* has ended and the status code is returned
Step ==
    /\ pc = "iterating"
    /\ nexts' = nexts + 1
    /\ IF nexts < Len(exec.outcomes)
       THEN /\ consumed' = Append(consumed, exec.outcomes[nexts + 1])
            /\ UNCHANGED <<pc, error, exitCode>>
       ELSE IF exec.ending = "throw"
       THEN Fail(ExecutorError) /\ UNCHANGED <<exitCode, consumed>>
       ELSE /\ Settle(iteratorToProcessStatusCode(consumed))
            /\ UNCHANGED consumed
    /\ UNCHANGED <<argv, defaultProjectName, workspace, opts, helpCalls,
                   implCalls, bridgeCalls, isNx, exec>>

Next ==
    \/ Parse
    \/ Validate
    \/ Prepare
    \/ Help
    \/ InvokeNative
    \/ InvokeBridge
    \/ Await
    \/ Step

Spec == Init /\ [][Next]_vars

\* parseRunOpts alone
SpecParse == InitParse /\ [][Parse]_vars

\* validateTargetAndConfiguration alone
SpecValidate == InitValidate /\ [][Validate]_vars

\* run has returned its exit code, or its error has reached handleErrors
Terminated == pc \in {"done", "failed"}

(***************************************************************************)
(* What the claims speak of                                                *)
(***************************************************************************)
\* the positional token as typed (the numbers of the model are 0 and 5), and
\* its ':'-separated segments
HasToken == Len(argv["_"]) > 0
TokenText ==
    LET t == argv["_"][1]
    IN IF t.isNumber THEN <<CASE t.num = 0 -> "0" [] t.num = 5 -> "5">>
       ELSE t.str
Segment(i) == IF HasToken THEN Element(split(TokenText), i) ELSE Undefined

\* the configuration flag and the project flag carry a value
FlagGiven(k) == Truthy(Get(argv, k))

\* the request of this command line, and whether it is valid in the workspace
Request == parseRunOpts(argv, defaultProjectName)
RequestValid ==
    /\ Request.status = "returned"
    /\ validateTargetAndConfiguration(workspace, Request.res).status
          = "returned"
RequestError ==
    IF Request.status = "thrown" THEN Request.error
    ELSE validateTargetAndConfiguration(workspace, Request.res).error

\* the executor ran to its end without raising
Completes == exec.shape # "none" /\ exec.ending = "done"

(***************************************************************************)
(* C1.  When the executor completes without raising, the exit code rests   *)
(* on the final outcome alone.  A deferred outcome gives 0 if it succeeded *)
(* and 1 otherwise; a sequence of one or more outcomes is consumed whole,  *)
(* in arrival order, and gives 0 if its last outcome succeeded and 1       *)
(* otherwise, whatever the earlier ones were.                              *)
(***************************************************************************)
C1_ExitCodeFromLastOutcome ==
    (Completes /\ Len(exec.outcomes) >= 1 /\ Terminated) =>
        /\ pc = "done"
        /\ consumed = exec.outcomes
        /\ nexts = IF isPromise(exec) THEN 1 ELSE Len(exec.outcomes) + 1
        /\ exitCode = IF exec.outcomes[Len(exec.outcomes)] THEN <<0>>
                      ELSE <<1>>

C1_Witness ==
    /\ pc = "done"
    /\ exec.shape = "iterator"
    /\ consumed = <<TRUE, TRUE, FALSE>>
    /\ exitCode = <<1>>

(***************************************************************************)
(* C2.  A valid request with help = true renders help once and ends with   *)
(* exit code 0, and neither the implementation nor the bridge is ever      *)
(* invoked in that run.                                                    *)
(***************************************************************************)
C2_HelpSkipsExecutor ==
    (RequestValid /\ Request.res.help) =>
        /\ implCalls = 0
        /\ bridgeCalls = 0
        /\ exec = NoExec
        /\ Terminated => (pc = "done" /\ exitCode = <<0>> /\ helpCalls = 1)

C2_Witness ==
    /\ RequestValid
    /\ Request.res.help
    /\ pc = "done"
    /\ helpCalls = 1

(***************************************************************************)
(* C3.  The configuration of a parsed request is "production" whenever     *)
(* prod is set, even beside a configuration flag; otherwise the value of   *)
(* the configuration/c flag when it carries one; otherwise the third       *)
(* segment of the positional token, absent if the token has none.          *)
(***************************************************************************)
C3_ConfigurationPrecedence ==
    pc = "parsed" =>
        /\ argv["prod"] => opts.configuration = Production
        /\ (~argv["prod"] /\ FlagGiven("c")) => opts.configuration = argv["c"]
        /\ (~argv["prod"] /\ FlagGiven("configuration")) =>
              opts.configuration = argv["configuration"]
        /\ (~argv["prod"] /\ ~FlagGiven("c") /\ ~FlagGiven("configuration"))
              => opts.configuration = Segment(3)

C3_Witness ==
    /\ pc = "parsed"
    /\ argv["prod"]
    /\ FlagGiven("configuration")
    /\ Segment(3) = A
    /\ opts.configuration = Production

(***************************************************************************)
(* C4.  parseRunOpts fails with the invalid-invocation error when there is *)
(* no positional token, and when the project or the target is still empty  *)
(* after the default project and the project flag have been applied; every *)
(* request it returns has a project and a target.                          *)
(***************************************************************************)
\* the project and the target that the token, the default project and the
\* project flag resolve to
ResolvedProject ==
    IF FlagGiven("project") THEN argv["project"]
    ELSE IF Truthy(Segment(1)) THEN Segment(1)
    ELSE defaultProjectName
ResolvedTarget == Segment(2)

C4_InvalidInvocation ==
    pc # "start" =>
        /\ (~HasToken \/ ~Truthy(ResolvedProject) \/ ~Truthy(ResolvedTarget))
              => (pc = "failed" /\ error = throwInvalidInvocation)
        /\ pc = "parsed" => (Truthy(opts.project) /\ Truthy(opts.target))

\* the part of C4 that holds of every command line
C4_ReturnedRequestIsResolved ==
    pc = "parsed" =>
        /\ Truthy(opts.project)
        /\ Truthy(opts.target)
        /\ opts.project = ResolvedProject
        /\ opts.target = ResolvedTarget

(***************************************************************************)
(* C5.  A request whose project exists and whose target is not a key of    *)
(* the project's targets fails with the target-not-found error, whose      *)
(* payload is the sorted list of the project's target names.               *)
(***************************************************************************)
CharCode(c) == CASE c = ":" -> 58 [] c = "a" -> 97 [] c = "b" -> 98

\* s < t, as JavaScript compares strings
RECURSIVE Precedes(_, _)
Precedes(s, t) ==
    IF t = <<>> THEN FALSE
    ELSE IF s = <<>> THEN TRUE
    ELSE IF Head(s) # Head(t) THEN CharCode(Head(s)) < CharCode(Head(t))
    ELSE Precedes(Tail(s), Tail(t))

IsSorted(names) ==
    \A i \in 1..Len(names) - 1 : ~Precedes(names[i + 1], names[i])

ProjectOfRequest == Lookup(workspace.projects, opts.project)
TargetMissing ==
    /\ pc # "parsed"
    /\ Has(workspace.projects, opts.project)
    /\ ~Has(ProjectOfRequest.targets, opts.target)

C5_Original ==
    TargetMissing =>
        /\ pc = "failed"
        /\ error.type = "TargetNotFound"
        /\ {error.valid[i] : i \in 1..Len(error.valid)}
              = {ProjectOfRequest.targets[i].key :
                    i \in 1..Len(ProjectOfRequest.targets)}
        /\ Len(error.valid) = Len(ProjectOfRequest.targets)
        /\ IsSorted(error.valid)

\* C5 as amended: the payload lists the project's target names in the order
\* the project declares them
C5_TargetNamesInDeclarationOrder ==
    TargetMissing =>
        /\ pc = "failed"
        /\ error.type = "TargetNotFound"
        /\ error.project = opts.project
        /\ error.target = opts.target
        /\ Len(error.valid) = Len(ProjectOfRequest.targets)
        /\ \A i \in 1..Len(error.valid) :
              error.valid[i] = ProjectOfRequest.targets[i].key

C5_Witness ==
    /\ TargetMissing
    /\ pc = "failed"
    /\ opts.target = AB
    /\ error.valid = <<B, A>>

(***************************************************************************)
(* C6.  For a request whose project and target exist: with no              *)
(* configuration name, validation succeeds whether or not the target       *)
(* declares configurations; with a name and no configurations map it fails *)
(* as "none defined"; with a name the map does not contain it fails as     *)
(* "not found", listing the map's names; with a name the map contains it   *)
(* succeeds.  An empty string is no configuration name.                    *)
(***************************************************************************)
TargetOfRequest == Lookup(ProjectOfRequest.targets, opts.target)
TargetFound ==
    /\ pc # "parsed"
    /\ Has(workspace.projects, opts.project)
    /\ Has(ProjectOfRequest.targets, opts.target)
Declared(name) ==
    \E i \in 1..Len(TargetOfRequest.configurations.entries) :
        TargetOfRequest.configurations.entries[i].key = name

C6_ConfigurationValidation ==
    TargetFound =>
        LET named == opts.configuration \notin {Undefined, EmptyString}
            map == TargetOfRequest.configurations
        IN /\ ~named => (pc = "validated" /\ error = NoError)
           /\ (named /\ ~map.declared) =>
                 (pc = "failed" /\ error.type = "NoConfigurations"
                                /\ error.configuration = opts.configuration)
           /\ (named /\ map.declared /\ ~Declared(opts.configuration)) =>
                 /\ pc = "failed"
                 /\ error.type = "ConfigurationNotFound"
                 /\ error.configuration = opts.configuration
                 /\ Len(error.valid) = Len(map.entries)
                 /\ \A i \in 1..Len(map.entries) :
                       error.valid[i] = map.entries[i].key
           /\ (named /\ map.declared /\ Declared(opts.configuration)) =>
                 (pc = "validated" /\ error = NoError)

C6_Witness ==
    /\ TargetFound
    /\ opts.configuration = AB
    /\ pc = "failed"
    /\ error.type = "ConfigurationNotFound"
    /\ error.valid = <<A, B>>

(***************************************************************************)
(* C7.  An error the executor raises, at its invocation, when its deferred *)
(* outcome is awaited, or at a step of its sequence, reaches handleErrors  *)
(* as raised: no further outcome is requested, no exit code comes of the   *)
(* outcomes consumed before it, and in every run the implementation or the *)
(* bridge is invoked at most once.                                         *)
(***************************************************************************)
C7_ErrorPropagatesWithoutRetry ==
    /\ implCalls + bridgeCalls <= 1
    /\ error = ExecutorError =>
          /\ pc = "failed"
          /\ exitCode = <<>>
          /\ implCalls + bridgeCalls = 1
          /\ exec # NoExec =>
                (exec.ending = "throw" /\ consumed = exec.outcomes
                                       /\ nexts = Len(exec.outcomes) + 1)
          /\ exec = NoExec => nexts = 0
    /\ (exec.ending = "throw" /\ Terminated) =>
          (pc = "failed" /\ error = ExecutorError /\ exitCode = <<>>)

C7_Witness ==
    /\ pc = "failed"
    /\ error = ExecutorError
    /\ exec.shape = "iterator"
    /\ consumed = <<TRUE, FALSE>>
    /\ nexts = 3

(***************************************************************************)
(* C8.  The runOptions of a parsed request hold none of help, _, c,        *)
(* configuration, prod, project, and hold every other key of the           *)
(* camel-cased options with its value; project, target, configuration and  *)
(* help keep the values extracted before the keys were removed.            *)
(***************************************************************************)
C8_KeyStripping ==
    pc = "parsed" =>
        LET camel == convertToCamelCase(argv)
        IN /\ DOMAIN opts.runOptions = DOMAIN camel \ RecognizedKeys
           /\ \A k \in DOMAIN camel \ RecognizedKeys :
                 opts.runOptions[k] = camel[k]
           /\ opts.help = camel["help"]
           /\ opts.project = ResolvedProject
           /\ opts.target = ResolvedTarget
           /\ opts.configuration =
                 IF camel["prod"] THEN Production
                 ELSE IF Truthy(Get(camel, "configuration"))
                      THEN camel["configuration"]
                 ELSE Segment(3)

C8_Witness ==
    /\ pc = "parsed"
    /\ "c" \in DOMAIN argv
    /\ "project" \in DOMAIN argv
    /\ argv["help"]
    /\ DOMAIN opts.runOptions = {"withDeps", "watch", "skipNxCache"}

(***************************************************************************)
(* C9.  A sequence that ends having produced no outcome ends the run in an *)
(* error raised to handleErrors (or in exit code 1): never in exit code 0, *)
(* and never in a normal result that is no exit code.                      *)
(***************************************************************************)
EmptySequence ==
    exec.shape = "iterator" /\ exec.outcomes = <<>> /\ exec.ending = "done"

C9_EmptySequenceIsAnError ==
    (EmptySequence /\ Terminated) =>
        /\ exitCode # <<0>>
        /\ \/ pc = "failed" /\ error = TypeError /\ exitCode = <<>>
           \/ pc = "done" /\ exitCode = <<1>>

C9_Witness ==
    /\ EmptySequence
    /\ pc = "failed"
    /\ error = TypeError
    /\ nexts = 1

(***************************************************************************)
(* C10.  Help is rendered, the implementation invoked and the bridge       *)
(* invoked only in a run whose request parsed and validated.  A run whose  *)
(* request does not parse or is not valid, help = true or not, ends with   *)
(* that error: no help is rendered, no exit code is reported, no executor  *)
(* or bridge is invoked.                                                   *)
(***************************************************************************)
C10_ValidationGatesOutput ==
    /\ (helpCalls + implCalls + bridgeCalls > 0) => RequestValid
    /\ pc \in {"validated", "ready", "awaiting", "iterating", "done"}
          => RequestValid
    /\ (~RequestValid /\ Terminated) =>
          /\ pc = "failed"
          /\ error = RequestError
          /\ exitCode = <<>>
          /\ helpCalls = 0
          /\ implCalls = 0
          /\ bridgeCalls = 0

C10_Witness ==
    /\ pc = "failed"
    /\ argv["help"]
    /\ opts.help
    /\ error.type = "ConfigurationNotFound"
    /\ helpCalls = 0

====
